---- MODULE Spec2Model ----
(***************************************************************************)
(* RemovePictureWatermark: recovery of an image from an alpha composite.   *)
(* The model follows src/main.cpp: the Pixel and WebPImage structures,     *)
(* their accessors, open_webp, and main's unblend pass with its Eq lambda. *)
(*                                                                         *)
(* Floating point.  Eq computes in binary32.  A value is modelled as an    *)
(* exact rational [k |-> "fin", n, d] (d > 0) or as one of the IEEE        *)
(* specials "pinf", "ninf", "nan".  The alpha values the model draws are   *)
(* dyadic rationals n/2^m in [0, 1]; for those 1.0f - alpha, the product   *)
(* with an 8-bit overlay channel and the subtraction from an 8-bit channel *)
(* are exact in binary32, and the final division is correctly rounded to a *)
(* value whose comparison with 0 and 255 and whose truncation agree with   *)
(* those of the exact quotient (a non-integer quotient N/n lies at least   *)
(* 1/n from every integer, far more than one binary32 ulp below 2^10).     *)
(***************************************************************************)
EXTENDS Integers, Sequences, FiniteSets, TLC

VARIABLES
    pc,         \* position in main / in the driver of a specification
    image,      \* WebPImage image      (the composite)
    mask,       \* WebPImage mask
    recovered,  \* WebPImage recovered
    alpha,      \* float alpha
    overlay,    \* int overlay_r, overlay_g, overlay_b
    x, y,       \* the loop counters of the unblend pass
    outcome,    \* how main ended
    acc,        \* the last accessor call: buffer, coordinate, index used
    todo,       \* coordinates not yet processed (any-order pass only)
    original    \* the buffer the composite was blended from (round trip only)

vars == <<pc, image, mask, recovered, alpha, overlay, x, y, outcome, acc, todo, original>>

-----------------------------------------------------------------------------
(* Bounds of the model *)

\* the largest number of pixels (width * height) of a decoded image
MaxCells == 4

\* the largest coordinate the accessor specification passes to get_pixel / set_pixel
MaxCoord == 3

-----------------------------------------------------------------------------
(* struct Pixel *)

MkPixel(r, g, b) == [r |-> r, g |-> g, b |-> b]

\* Pixel { } : the default member initialisers r = 0, g = 0, b = 0
DefaultPixel == MkPixel(0, 0, 0)

BLACK == MkPixel(0, 0, 0)

\* operator==(const Pixel &, const Pixel &)
PixelEq(lhs, rhs) == <<lhs.r, lhs.g, lhs.b>> = <<rhs.r, rhs.g, rhs.b>>

\* IsBlack with a fault: the comparison inverted
IsBlack_inverted(p) == ~PixelEq(p, BLACK)

\* c_mask == BLACK
IsBlack(p) == PixelEq(p, BLACK)

-----------------------------------------------------------------------------
(* struct WebPImage *)

MkImage(w, h, px) == [width |-> w, height |-> h, pixels |-> px]

\* WebPImage image, mask; : width = 0, height = 0, no pixels
EmptyImage == MkImage(0, 0, <<>>)

\* the linear index both accessors use, 0-based as in the source
LinearIndex(img, cx, cy) == cy * img.width + cx

\* What an accessor call does with (cx, cy): "default" when a range check
\* returns early, "cell" when pixels[index] is an element of the vector,
\* "oob" when the index is past the end of the vector (undefined behaviour).
AccessKind(img, cx, cy) ==
    IF cx > img.width THEN "default"
    ELSE IF cy > img.height THEN "default"
    ELSE IF LinearIndex(img, cx, cy) < Len(img.pixels) THEN "cell"
    ELSE "oob"

\* what a read past the end of the vector may return
GarbagePixels == {BLACK, MkPixel(0, 0, 1)}

\* get_pixel: the set of pixels the call may return (one, unless the read is
\* past the end of the vector)
get_pixel(img, cx, cy) ==
    CASE AccessKind(img, cx, cy) = "default" -> {DefaultPixel}
      [] AccessKind(img, cx, cy) = "cell" -> {img.pixels[LinearIndex(img, cx, cy) + 1]}
      [] OTHER -> GarbagePixels

\* set_pixel with a fault: the row offset dropped from the index
set_pixel_norow(img, cx, cy, p) ==
    IF cx > img.width \/ cy > img.height \/ cx >= Len(img.pixels) THEN img
    ELSE [img EXCEPT !.pixels[cx + 1] = p]

\* set_pixel: the buffer after the call.  A write past the end of the vector
\* does not change the vector's elements (it changes memory that is not part
\* of the buffer); the action that makes the call records it in acc.
set_pixel(img, cx, cy, p) ==
    IF AccessKind(img, cx, cy) = "cell"
    THEN [img EXCEPT !.pixels[LinearIndex(img, cx, cy) + 1] = p]
    ELSE img

\* the record kept of an accessor call
Access(buf, op, img, cx, cy, p) ==
    [buf |-> buf, op |-> op, x |-> cx, y |-> cy, val |-> p,
     kind |-> AccessKind(img, cx, cy), idx |-> LinearIndex(img, cx, cy),
     width |-> img.width, height |-> img.height, len |-> Len(img.pixels)]

NoAccess ==
    [buf |-> "none", op |-> "none", x |-> 0, y |-> 0, val |-> DefaultPixel,
     kind |-> "none", idx |-> 0,
     width |-> 0, height |-> 0, len |-> 0]

-----------------------------------------------------------------------------
(* binary32 values and the arithmetic Eq uses *)

Fin(n, d) == [k |-> "fin", n |-> n, d |-> d]
PInf == [k |-> "pinf", n |-> 0, d |-> 1]
NInf == [k |-> "ninf", n |-> 0, d |-> 1]
NaN == [k |-> "nan", n |-> 0, d |-> 1]

\* float alpha; before main assigns it
Unset == [k |-> "unset", n |-> 0, d |-> 1]

\* static_cast<float>(c) of an 8-bit channel
FromU8(c) == Fin(c, 1)

\* a - b, both finite
FSub(a, b) == Fin(a.n * b.d - b.n * a.d, a.d * b.d)

\* a * b, both finite
FMul(a, b) == Fin(a.n * b.n, a.d * b.d)

\* FDiv with a fault: a multiplication in place of the division
FDiv_times(a, b) == Fin(a.n * b.n, a.d * b.d)

\* a / b, both finite: IEEE division, x/0 is an infinity and 0/0 is NaN
FDiv(a, b) ==
    IF b.n = 0
    THEN (IF a.n = 0 THEN NaN ELSE IF a.n > 0 THEN PInf ELSE NInf)
    ELSE IF b.n > 0 THEN Fin(a.n * b.d, a.d * b.n)
    ELSE Fin(-(a.n * b.d), a.d * (-b.n))

\* a < b on binary32 values: false whenever an operand is NaN
FLess(a, b) ==
    CASE a.k = "nan" \/ b.k = "nan" -> FALSE
      [] a.k = "ninf" -> b.k # "ninf"
      [] a.k = "pinf" -> FALSE
      [] b.k = "ninf" -> FALSE
      [] b.k = "pinf" -> TRUE
      [] OTHER -> a.n * b.d < b.n * a.d

\* FClamp with a fault: no clamping
FClamp_none(v, lo, hi) == v

\* std::clamp(v, lo, hi) == (v < lo) ? lo : (hi < v) ? hi : v
FClamp(v, lo, hi) == IF FLess(v, lo) THEN lo ELSE IF FLess(hi, v) THEN hi ELSE v

\* Eq with a fault: the overlay weighted by alpha instead of (1 - alpha)
Eq_alphaweight(c_final, a, c_overlay) ==
    FClamp(FDiv(FSub(FromU8(c_final), FMul(FromU8(c_overlay), a)), a),
           Fin(0, 1), Fin(255, 1))

\* the lambda Eq
Eq(c_final, a, c_overlay) ==
    FClamp(FDiv(FSub(FromU8(c_final),
                     FMul(FromU8(c_overlay), FSub(Fin(1, 1), a))),
                a),
           Fin(0, 1), Fin(255, 1))

\* what the conversion of a NaN to an 8-bit channel may produce
NaNChannels == {0, 255}

\* truncation toward zero of a finite value
Trunc(v) == IF v.n >= 0 THEN v.n \div v.d ELSE -((-v.n) \div v.d)

\* c_original.r = Eq(...): the conversion of the float to uint8_t, as the set
\* of channels it may store.  A finite value is truncated toward zero (a value
\* out of the range of uint8_t wraps); the conversion of a NaN is undefined.
ToChannel(v) ==
    CASE v.k = "fin" -> {Trunc(v) % 256}
      [] v.k = "pinf" -> {255}
      [] v.k = "ninf" -> {0}
      [] OTHER -> NaNChannels

\* ToU8 with a fault: saturation instead of reduction modulo 2^8
ToU8_saturate(v) == IF v < 0 THEN 0 ELSE IF v > 255 THEN 255 ELSE v

\* the conversion of the int overlay_r to the parameter const uint8_t c_overlay
ToU8(v) == v % 256

\* the pixels the loop body may compute for the composite pixel c_f
Originals(c_f, a, ov) ==
    {MkPixel(cr, cg, cb) :
        cr \in ToChannel(Eq(c_f.r, a, ToU8(ov.r))),
        cg \in ToChannel(Eq(c_f.g, a, ToU8(ov.g))),
        cb \in ToChannel(Eq(c_f.b, a, ToU8(ov.b)))}

-----------------------------------------------------------------------------
(* What the decoder and the command line may supply *)

\* the dimensions WebPGetInfo may report
Dims == {d \in (1..MaxCells) \X (1..MaxCells) : d[1] * d[2] <= MaxCells}

ImagePixels == {MkPixel(200, 200, 200), MkPixel(0, 255, 101)}

MaskPixels == {BLACK, MkPixel(0, 0, 1)}

\* the values of --alpha, as n/d
Alphas == {Fin(0, 1), Fin(1, 2), Fin(3, 4), Fin(1, 1)}

\* the values of --r, --g, --b
Overlays == {MkPixel(255, 255, 255), MkPixel(255, 0, 100), MkPixel(-1, 256, 356)}

Buffers(D, P) == UNION {{MkImage(d[1], d[2], px) : px \in [1..(d[1] * d[2]) -> P]} : d \in D}

\* Resized with a fault: the height left out of the new size
Resized_widthonly(w, h) == [i \in 1..w |-> DefaultPixel]

\* pixels.resize(width * height): value-initialised pixels
Resized(w, h) == [i \in 1..(w * h) |-> DefaultPixel]

\* WebPDecodeRGBInto writing the decoded pixels into the buffer it is given
Decoded(buf, data) == [i \in 1..Len(buf) |-> IF i <= Len(data) THEN data[i] ELSE buf[i]]

\* what read_file, WebPGetInfo and WebPDecodeRGBInto may do with a file:
\* "nofile" read_file returns 0, "badinfo" WebPGetInfo fails (width and height
\* are not written), "baddecode" WebPDecodeRGBInto fails after the resize,
\* "ok" the image is decoded
DecodeResults(P) ==
    {[kind |-> kd, width |-> 0, height |-> 0, pixels |-> <<>>] : kd \in {"nofile", "badinfo"}}
    \cup {[kind |-> kd, width |-> b.width, height |-> b.height, pixels |-> b.pixels] :
            kd \in {"baddecode", "ok"}, b \in Buffers(Dims, P)}

\* open_webp: out_image when the call returns
open_webp(img, res) ==
    IF res.kind \in {"nofile", "badinfo"} THEN img
    ELSE MkImage(res.width, res.height,
                 Decoded(Resized(res.width, res.height), res.pixels))

-----------------------------------------------------------------------------
(* main *)

Init ==
    /\ pc = "open_image"
    /\ image = EmptyImage
    /\ mask = EmptyImage
    /\ recovered = EmptyImage
    /\ alpha = Unset
    /\ overlay = MkPixel(0, 0, 0)
    /\ x = 0
    /\ y = 0
    /\ outcome = "running"
    /\ acc = NoAccess
    /\ todo = {}
    /\ original = EmptyImage

\* if(!open_webp(vm["image"].as<std::string>(), image)) return -1;
OpenImage ==
    /\ pc = "open_image"
    /\ \E res \in DecodeResults(ImagePixels) :
        /\ image' = open_webp(image, res)
        /\ pc' = IF res.kind = "ok" THEN "open_mask" ELSE "done"
        /\ outcome' = IF res.kind = "ok" THEN outcome ELSE "failed"
    /\ UNCHANGED <<mask, recovered, alpha, overlay, x, y, acc, todo, original>>

\* if(!open_webp(vm["mask"].as<std::string>(), mask)) return -1;
OpenMask ==
    /\ pc = "open_mask"
    /\ \E res \in DecodeResults(MaskPixels) :
        /\ mask' = open_webp(mask, res)
        /\ pc' = IF res.kind = "ok" THEN "params" ELSE "done"
        /\ outcome' = IF res.kind = "ok" THEN outcome ELSE "failed"
    /\ UNCHANGED <<image, recovered, alpha, overlay, x, y, acc, todo, original>>

\* alpha = vm["alpha"] ... overlay_b = vm["b"]; WebPImage recovered = image;
\* and the initialisation of the loop counters
Setup ==
    /\ pc = "params"
    /\ alpha' \in Alphas
    /\ overlay' \in Overlays
    /\ recovered' = image
    /\ x' = 0
    /\ y' = 0
    /\ pc' = "loop"
    /\ UNCHANGED <<image, mask, outcome, acc, todo, original>>

\* the body of the inner loop at (cx, cy) once mask.get_pixel has returned
\* c_mask: the buffers recovered may be after it
BodyFor(rec, cx, cy, c_mask) ==
    IF IsBlack(c_mask)
    THEN {rec}
    ELSE UNION {{set_pixel(rec, cx, cy, c_original) :
                    c_original \in Originals(c_f, alpha, overlay)} :
                c_f \in get_pixel(image, cx, cy)}

\* the body of the inner loop at (cx, cy)
Body(rec, cx, cy) ==
    UNION {BodyFor(rec, cx, cy, c_mask) : c_mask \in get_pixel(mask, cx, cy)}

\* one iteration of the inner loop, with ++x and, at the end of a row, ++y
Iterate ==
    /\ pc = "loop"
    /\ y < image.height
    /\ x < image.width
    /\ \E c_mask \in get_pixel(mask, x, y) :
        /\ recovered' \in BodyFor(recovered, x, y, c_mask)
        /\ acc' = Access("mask", "get", mask, x, y, c_mask)
    /\ x' = IF x + 1 < image.width THEN x + 1 ELSE 0
    /\ y' = IF x + 1 < image.width THEN y ELSE y + 1
    /\ UNCHANGED <<pc, image, mask, alpha, overlay, outcome, todo, original>>

\* mask.get_pixel reading past the end of mask.pixels may end the process
LoopCrash ==
    /\ pc = "loop"
    /\ y < image.height
    /\ x < image.width
    /\ AccessKind(mask, x, y) = "oob"
    /\ acc' = Access("mask", "get", mask, x, y, DefaultPixel)
    /\ pc' = "done"
    /\ outcome' = "crashed"
    /\ UNCHANGED <<image, mask, recovered, alpha, overlay, x, y, todo, original>>

\* y < image.height is false: the pass is over
LoopExit ==
    /\ pc = "loop"
    /\ ~(y < image.height)
    /\ pc' = "encode"
    /\ UNCHANGED <<image, mask, recovered, alpha, overlay, x, y, outcome, acc, todo, original>>

\* WebPEncodeLosslessRGB and the write of the output file: return -1 when the
\* encoder or the output stream fails, 0 otherwise
Encode ==
    /\ pc = "encode"
    /\ outcome' \in {"saved", "failed"}
    /\ pc' = "done"
    /\ UNCHANGED <<image, mask, recovered, alpha, overlay, x, y, acc, todo, original>>

Next == OpenImage \/ OpenMask \/ Setup \/ Iterate \/ LoopCrash \/ LoopExit \/ Encode

Spec == Init /\ [][Next]_vars

-----------------------------------------------------------------------------
(* The accessors on their own: get_pixel and set_pixel called with any       *)
(* unsigned coordinate on any decoded buffer.                                *)

\* the pixel the accessor specification writes
Marker == MkPixel(1, 2, 3)

InitAccess ==
    /\ pc = "access"
    /\ image \in Buffers(Dims, ImagePixels)
    /\ mask = EmptyImage
    /\ recovered = EmptyImage
    /\ alpha = Unset
    /\ overlay = MkPixel(0, 0, 0)
    /\ x = 0
    /\ y = 0
    /\ outcome = "running"
    /\ acc = NoAccess
    /\ todo = {}
    /\ original = EmptyImage

\* image.get_pixel(cx, cy)
GetAt ==
    /\ pc = "access"
    /\ \E cx \in 0..MaxCoord, cy \in 0..MaxCoord :
        \E p \in get_pixel(image, cx, cy) :
            acc' = Access("image", "get", image, cx, cy, p)
    /\ UNCHANGED <<pc, image, mask, recovered, alpha, overlay, x, y, outcome, todo, original>>

\* image.set_pixel(cx, cy, Marker)
SetAt ==
    /\ pc = "access"
    /\ \E cx \in 0..MaxCoord, cy \in 0..MaxCoord :
        /\ image' = set_pixel(image, cx, cy, Marker)
        /\ acc' = Access("image", "set", image, cx, cy, Marker)
    /\ UNCHANGED <<pc, mask, recovered, alpha, overlay, x, y, outcome, todo, original>>

\* an accessor indexing past the end of the vector may end the process
AccessCrash ==
    /\ pc = "access"
    /\ \E cx \in 0..MaxCoord, cy \in 0..MaxCoord, op \in {"get", "set"} :
        /\ AccessKind(image, cx, cy) = "oob"
        /\ acc' = Access("image", op, image, cx, cy, DefaultPixel)
    /\ pc' = "done"
    /\ outcome' = "crashed"
    /\ UNCHANGED <<image, mask, recovered, alpha, overlay, x, y, todo, original>>

NextAccess == GetAt \/ SetAt \/ AccessCrash

SpecAccess == InitAccess /\ [][NextAccess]_vars

-----------------------------------------------------------------------------
(* The pass with its iterations taken in any order: the loop body of main    *)
(* applied once to every coordinate, the coordinates chosen by a scheduler.  *)

Coords(img) == (0..(img.width - 1)) \X (0..(img.height - 1))

InitAnyOrder ==
    /\ pc = "pass"
    /\ image \in Buffers(Dims, ImagePixels)
    /\ mask \in Buffers({<<image.width, image.height>>}, MaskPixels)
    /\ recovered = image
    /\ alpha \in Alphas
    /\ overlay \in Overlays
    /\ x = 0
    /\ y = 0
    /\ outcome = "running"
    /\ acc = NoAccess
    /\ todo = Coords(image)
    /\ original = EmptyImage

\* the loop body at a coordinate not yet processed
ProcessAny ==
    /\ pc = "pass"
    /\ \E c \in todo :
        /\ recovered' \in Body(recovered, c[1], c[2])
        /\ todo' = todo \ {c}
    /\ UNCHANGED <<pc, image, mask, alpha, overlay, x, y, outcome, acc, original>>

\* every coordinate has been processed
FinishAny ==
    /\ pc = "pass"
    /\ todo = {}
    /\ pc' = "encode"
    /\ UNCHANGED <<image, mask, recovered, alpha, overlay, x, y, outcome, acc, todo, original>>

NextAnyOrder == ProcessAny \/ FinishAny \/ Encode

SpecAnyOrder == InitAnyOrder /\ [][NextAnyOrder]_vars

-----------------------------------------------------------------------------
(* The round trip: the composite is the forward blend of an original buffer, *)
(* the mask is non-black everywhere, and main's pass runs on it.             *)

\* the forward blend of one channel, F_c = O_c*alpha + V_c*(1-alpha), rounded
\* to the nearest 8-bit value (halves up) and clamped
Blend(c, v, a) ==
    LET m == c * a.n + v * (a.d - a.n)
        r == (2 * m + a.d) \div (2 * a.d)
    IN IF r < 0 THEN 0 ELSE IF r > 255 THEN 255 ELSE r

\* the forward blend of a buffer with the overlay colour ov
Composite(O, ov, a) ==
    MkImage(O.width, O.height,
            [i \in 1..Len(O.pixels) |->
                MkPixel(Blend(O.pixels[i].r, ov.r, a),
                        Blend(O.pixels[i].g, ov.g, a),
                        Blend(O.pixels[i].b, ov.b, a))])

\* the original buffers: for every dimension and every c in 0..255 the buffer
\* whose i-th pixel is ((c + i) mod 256, 255 - c, (2c + i) mod 256)
Originals8 ==
    {MkImage(d[1], d[2],
             [i \in 1..(d[1] * d[2]) |->
                MkPixel((c + i) % 256, 255 - c, (2 * c + i) % 256)]) :
        d \in Dims, c \in 0..255}

RoundTripAlphas == {a \in Alphas : a.n > 0} \cup {Fin(1, 8), Fin(1, 4), Fin(3, 8), Fin(5, 8), Fin(7, 8)}

RoundTripOverlays == {o \in Overlays : o.r \in 0..255 /\ o.g \in 0..255 /\ o.b \in 0..255}

InitRoundTrip ==
    /\ pc = "loop"
    /\ original \in Originals8
    /\ alpha \in RoundTripAlphas
    /\ overlay \in RoundTripOverlays
    /\ image = Composite(original, overlay, alpha)
    /\ mask = MkImage(image.width, image.height,
                      [i \in 1..Len(image.pixels) |-> MkPixel(0, 0, 1)])
    /\ recovered = image
    /\ x = 0
    /\ y = 0
    /\ outcome = "running"
    /\ acc = NoAccess
    /\ todo = {}

NextRoundTrip == Iterate \/ LoopExit \/ Encode

SpecRoundTrip == InitRoundTrip /\ [][NextRoundTrip]_vars

-----------------------------------------------------------------------------
(* What the claims speak of *)

\* the pixel of coordinate c = <<cx, cy>> in the row-major layout
PixelAt(img, c) == img.pixels[c[2] * img.width + c[1] + 1]

SameDims == image.width = mask.width /\ image.height = mask.height

\* main has read its parameters and copied the composite
InPass == pc \in {"loop", "encode", "done"} /\ alpha.k = "fin"

\* the sequential pass has run the loop body at c
Processed(c) == c[2] < y \/ (c[2] = y /\ c[1] < x)

\* the coordinates the sequential pass has recovered
Recovered == {c \in Coords(image) : Processed(c) /\ PixelAt(mask, c) # BLACK}

Channels == {"r", "g", "b"}

\* n: the numerator of (f - v*(1 - a))/a over the denominator a.n, a = a.n/a.d
Numer(f, a, v) == f * a.d - v * (a.d - a.n)

\* r is clamp((f - v*(1 - a))/a, 0, 255) narrowed to an integer, for a > 0
ChannelIs(r, f, a, v) ==
    /\ Numer(f, a, v) < 0 => r = 0
    /\ Numer(f, a, v) > 255 * a.n => r = 255
    /\ (0 <= Numer(f, a, v) /\ Numer(f, a, v) <= 255 * a.n) =>
            (r * a.n <= Numer(f, a, v) /\ Numer(f, a, v) < (r + 1) * a.n)

InRange(o) == o.r \in 0..255 /\ o.g \in 0..255 /\ o.b \in 0..255

Abs(i) == IF i < 0 THEN -i ELSE i

\* C1: with a mask of the composite's dimensions, the recovered buffer has the
\* composite's width and height and holds the composite's pixel at every
\* coordinate whose mask pixel is exactly (0,0,0).
C1_UnmaskedUnchanged ==
    (InPass /\ SameDims) =>
        /\ recovered.width = image.width
        /\ recovered.height = image.height
        /\ Len(recovered.pixels) = Len(image.pixels)
        /\ \A c \in Coords(image) :
              PixelAt(mask, c) = BLACK => PixelAt(recovered, c) = PixelAt(image, c)

\* the pass is over, it left a black-masked pixel alone and changed another
C1_Witness ==
    /\ pc = "done" /\ outcome = "saved" /\ SameDims
    /\ \E c \in Coords(image) : PixelAt(mask, c) = BLACK
    /\ \E c \in Coords(image) :
          PixelAt(mask, c) # BLACK /\ PixelAt(recovered, c) # PixelAt(image, c)

\* C2: for alpha in (0,1] and overlay channels in [0,255], every channel of a
\* recovered pixel is clamp((final_c - overlay_c*(1-alpha))/alpha, 0, 255)
\* narrowed to an integer, final_c being the composite's channel at the same
\* coordinate; composite 200, overlay 255, alpha 0.5 gives 145.
C2_InverseBlend ==
    (InPass /\ SameDims /\ alpha.n > 0 /\ InRange(overlay)) =>
        \A c \in Recovered : \A ch \in Channels :
            ChannelIs(PixelAt(recovered, c)[ch], PixelAt(image, c)[ch], alpha, overlay[ch])

\* the scenario: (200,200,200) under overlay (255,255,255) at alpha 0.5 is (145,145,145)
C2_Witness ==
    /\ InPass /\ SameDims /\ alpha = Fin(1, 2) /\ overlay = MkPixel(255, 255, 255)
    /\ \E c \in Recovered :
          /\ PixelAt(image, c) = MkPixel(200, 200, 200)
          /\ PixelAt(recovered, c) = MkPixel(145, 145, 145)

\* C4: at a recovered pixel a channel whose value (final_c - c_overlay*(1-alpha))/alpha
\* is below 0 is stored as 0, one whose value is above 255 is stored as 255,
\* and every stored channel is in [0,255] (c_overlay is the 8-bit overlay
\* channel the equation receives).
C4_Clamped ==
    (InPass /\ SameDims) =>
        \A c \in Recovered : \A ch \in Channels :
            /\ PixelAt(recovered, c)[ch] \in 0..255
            /\ Numer(PixelAt(image, c)[ch], alpha, overlay[ch] % 256) < 0
                  => PixelAt(recovered, c)[ch] = 0
            /\ Numer(PixelAt(image, c)[ch], alpha, overlay[ch] % 256) > 255 * alpha.n
                  => PixelAt(recovered, c)[ch] = 255

\* one recovered pixel has a channel clamped at 0 and a channel clamped at 255
C4_Witness ==
    /\ InPass /\ SameDims /\ alpha.n > 0
    /\ \E c \in Recovered : \E lo \in Channels, hi \in Channels :
          /\ Numer(PixelAt(image, c)[lo], alpha, overlay[lo] % 256) < 0
          /\ PixelAt(recovered, c)[lo] = 0
          /\ Numer(PixelAt(image, c)[hi], alpha, overlay[hi] % 256) > 255 * alpha.n
          /\ PixelAt(recovered, c)[hi] = 255

\* C5 (the claim as stated): with alpha == 0 the pass ends in a DegenerateAlpha
\* error and writes no pixel derived from the division by alpha.
C5_DegenerateAlphaRaised ==
    (InPass /\ alpha.n = 0) =>
        /\ recovered = image
        /\ pc = "done" => outcome = "DegenerateAlpha"

\* C6 (the claim as stated): when the mask's dimensions differ from the
\* composite's the pass ends in a DimensionMismatch error, modifies no pixel
\* of the recovered buffer and reads no mask pixel outside the mask or at
\* another coordinate than the one processed.
C6_DimensionMismatchRaised ==
    (InPass /\ ~SameDims) =>
        /\ recovered = image
        /\ acc.kind # "oob"
        /\ acc.kind = "cell" => (acc.x < acc.width /\ acc.y < acc.height)
        /\ pc = "done" => outcome = "DimensionMismatch"

\* C7 (the claim as stated): an accessor call either uses the cell of its own
\* coordinate (x, y) with x < width and y < height, or returns (0,0,0) /
\* leaves the buffer unchanged without indexing the vector.
C7_AccessorsBoundsChecked ==
    acc.op \in {"get", "set"} =>
        \/ acc.kind = "default"
        \/ /\ acc.kind = "cell"
           /\ acc.x < acc.width
           /\ acc.y < acc.height
           /\ acc.idx < acc.width * acc.height

\* C9: every buffer holds width * height pixels, in every state of main.
C9_SizeInvariant ==
    /\ Len(image.pixels) = image.width * image.height
    /\ Len(mask.pixels) = mask.width * mask.height
    /\ Len(recovered.pixels) = recovered.width * recovered.height

\* main ended after a pass that wrote into a buffer of more than one row and column
C9_Witness ==
    /\ pc = "done" /\ outcome = "saved"
    /\ image.width > 1 /\ image.height > 1
    /\ recovered # image

\* C10: the overlay channels enter the equation reduced modulo 256: a
\* recovered pixel is the one the equation gives for overlay_c mod 256,
\* whatever integer overlay_c is.
C10_OverlayModulo ==
    (InPass /\ SameDims /\ alpha.n > 0) =>
        \A c \in Recovered : \A ch \in Channels :
            ChannelIs(PixelAt(recovered, c)[ch], PixelAt(image, c)[ch], alpha,
                      overlay[ch] % 256)

\* a pixel recovered under an overlay with a negative channel and channels above 255
C10_Witness ==
    /\ InPass /\ SameDims /\ alpha.n > 0
    /\ overlay.r < 0 /\ overlay.g > 255 /\ overlay.b > 255
    /\ \E c \in Recovered : PixelAt(recovered, c) # PixelAt(image, c)

\* the buffers the sequential row-major pass may end with, started with the
\* buffers recs at the k-th coordinate
RECURSIVE SeqPass(_, _)
SeqPass(recs, k) ==
    IF k >= image.width * image.height THEN recs
    ELSE SeqPass(UNION {Body(r, k % image.width, k \div image.width) : r \in recs}, k + 1)

\* a step changes only cells of coordinates it takes from todo
OwnCellOnly ==
    \A i \in 1..Len(recovered.pixels) :
        recovered'.pixels[i] # recovered.pixels[i] =>
            \E c \in todo \ todo' : i = c[2] * image.width + c[1] + 1

\* C8: with the coordinates processed in any order the pass ends with a buffer
\* the sequential row-major pass ends with, and every step writes at most the
\* output cell of the coordinate it processes, which is processed once.
C8_OrderIndependent ==
    /\ []((pc \in {"encode", "done"}) => recovered \in SeqPass({image}, 0))
    /\ [][OwnCellOnly /\ Cardinality(todo \ todo') <= 1 /\ todo' \subseteq todo]_vars

\* a pass over more than one row whose last coordinate processed was not the
\* last of the row-major order changed at least two pixels
C8_Witness ==
    /\ pc = "pass" /\ image.height > 1
    /\ todo = {<<0, 0>>}
    /\ Cardinality({c \in Coords(image) : PixelAt(recovered, c) # PixelAt(image, c)}) >= 2

Tolerance(a) == (a.d + 2 * a.n - 1) \div (2 * a.n)

====
